---------------------------- MODULE Spec2Model ----------------------------
(***************************************************************************)
(* Model of the PubMed -> cumulative CSV -> blob pipeline:                 *)
(*   src/RAG Chatbot/pubmed_script.py  (normaliser, fetch, download,       *)
(*                                      merge, upload)                     *)
(*   src/RAG Chatbot/pubmed_dag.py     (run_pubmed_extraction_and_upload)  *)
(*                                                                         *)
(* Text is a sequence of one-character strings, so that strip(), split()   *)
(* and len() are computed and not assumed.  A Python value is a tagged     *)
(* record; a dict holds a function whose domain is the keys present.       *)
(***************************************************************************)
EXTENDS Integers, Sequences, FiniteSets, TLC

VARIABLES
    pc,          \* position of the run / of the function being executed
    raw,         \* the raw record handed to the row loop of fetch_pubmed_full
    norm,        \* what the row loop body produced for raw
    nIds,        \* len(ids) returned by Entrez.esearch
    i,           \* loop variable of the batch loop
    recs,        \* recs, the raw records gathered by the batch loop
    calls,       \* external calls made by fetch_pubmed_full, in order
    new_file,    \* content of new_csv     (pubmed_new.csv)
    old_file,    \* content of old_csv     (pubmed_existing.csv)
    merged_file, \* content of merged_csv  (pubmed_combined.csv, local)
    existing,    \* value returned by download_existing_blob
    blob,        \* the remote blob pubmed_combined.csv
    preBlob,     \* the remote blob when the current run started
    steps,       \* steps of the current run that were entered, in order
    dl_exc,      \* what bc.download_blob() raised in the current run, or ""
    err          \* the step whose exception ended the current run, or ""

vars == <<pc, raw, norm, nIds, i, recs, calls, new_file, old_file,
          merged_file, existing, blob, preBlob, steps, dl_exc, err>>

---------------------------------------------------------------------------
(* Text *)

WS == {" ", "\n", "\t"}

RECURSIVE LStrip(_)
LStrip(s) ==
    IF s # <<>> /\ Head(s) \in WS THEN LStrip(Tail(s)) ELSE s

RECURSIVE RStrip(_)
RStrip(s) ==
    IF s # <<>> /\ s[Len(s)] \in WS THEN RStrip(SubSeq(s, 1, Len(s) - 1)) ELSE s

\* str.strip()
Strip(s) == RStrip(LStrip(s))

\* s.split(" ")[0]: the text before the first blank
RECURSIVE FirstToken(_)
FirstToken(s) ==
    IF s = <<>> \/ Head(s) = " " THEN <<>> ELSE <<Head(s)>> \o FirstToken(Tail(s))

\* sep.join(p for p in parts if p)
RECURSIVE JoinNonEmpty(_, _)
JoinNonEmpty(parts, sep) ==
    IF parts = <<>> THEN <<>>
    ELSE IF Head(parts) = <<>> THEN JoinNonEmpty(Tail(parts), sep)
    ELSE LET rest == JoinNonEmpty(Tail(parts), sep)
         IN  IF rest = <<>> THEN Head(parts) ELSE Head(parts) \o sep \o rest

---------------------------------------------------------------------------
(* Python values *)

PyNone == [t |-> "none"]
PyStr(s) == [t |-> "str", s |-> s]
PyInt(n) == [t |-> "int", n |-> n]
PyList(l) == [t |-> "list", l |-> l]
PyDict(d) == [t |-> "dict", d |-> d]

EmptyDict == PyDict(<<>>)
EmptyStr == PyStr(<<>>)

IsDict(v) == v.t = "dict"
IsStr(v) == v.t = "str"

\* bool(v)
Truthy(v) ==
    CASE v.t = "none" -> FALSE
      [] v.t = "str"  -> v.s # <<>>
      [] v.t = "int"  -> v.n # 0
      [] v.t = "list" -> v.l # <<>>
      [] v.t = "dict" -> DOMAIN v.d # {}

\* a or b
PyOr(a, b) == IF Truthy(a) THEN a ELSE b

\* d.get(k, default), d a dict
Get(d, k, default) == IF k \in DOMAIN d.d THEN d.d[k] ELSE default

\* str(v) for the values a PMID or a year takes
Digit(n) == <<"0", "1", "2", "3", "4", "5", "6", "7", "8", "9">>[n + 1]

ToStr(v) ==
    CASE v.t = "str"  -> v.s
      [] v.t = "none" -> <<"N", "o", "n", "e">>
      [] v.t = "int"  -> <<Digit(v.n)>>
      [] v.t = "list" -> <<"[", "]">>
      [] v.t = "dict" -> <<"{", "}">>

---------------------------------------------------------------------------
(* Results of a call: a value, or an exception that propagates *)

Ok(v) == [ok |-> TRUE, v |-> v, exc |-> ""]
Raise(e) == [ok |-> FALSE, v |-> PyNone, exc |-> e]

---------------------------------------------------------------------------
(* Record normaliser *)

\* seg.get("#text") or seg.get("_") or ""
TextOf(seg) ==
    PyOr(PyOr(Get(seg, "#text", PyNone), Get(seg, "_", PyNone)), EmptyStr)

\* one iteration of the loop over a list-shaped AbstractText: the parts
\* appended for seg (none for a segment that is neither str nor dict)
SegPart(seg) ==
    IF IsStr(seg) THEN Ok(<<Strip(seg.s)>>)
    ELSE IF IsDict(seg) THEN
        LET txt == TextOf(seg)
            label == Get(seg, "Label", PyNone)
        IN  IF Truthy(label)
            THEN Ok(<<Strip(ToStr(label) \o <<":", " ">> \o ToStr(txt))>>)
            ELSE IF IsStr(txt) THEN Ok(<<Strip(txt.s)>>)
            ELSE Raise("AttributeError")
    ELSE Ok(<<>>)

RECURSIVE SegParts(_)
SegParts(l) ==
    IF l = <<>> THEN Ok(<<>>)
    ELSE LET h == SegPart(Head(l))
         IN  IF ~h.ok THEN h
             ELSE LET r == SegParts(Tail(l))
                  IN  IF ~r.ok THEN r ELSE Ok(h.v \o r.v)

_flatten_abstract(art) ==
    LET ab0 == Get(art, "Abstract", PyNone)
    IN  IF ~Truthy(ab0) THEN Ok(<<>>)
        ELSE IF ~IsDict(ab0) THEN Raise("AttributeError")
        ELSE LET ab == Get(ab0, "AbstractText", EmptyStr)
             IN  IF IsStr(ab) THEN Ok(Strip(ab.s))
                 ELSE IF ab.t = "list" THEN
                     LET parts == SegParts(ab.l)
                     IN  IF ~parts.ok THEN parts
                         ELSE Ok(JoinNonEmpty(parts.v, <<" ">>))
                 ELSE IF IsDict(ab) THEN
                     LET txt == TextOf(ab)
                     IN  IF IsStr(txt) THEN Ok(Strip(txt.s))
                         ELSE Raise("AttributeError")
                 ELSE Ok(<<>>)

\* one iteration of the loop over AuthorList: the names appended for a
AuthorName(a) ==
    IF ~IsDict(a) THEN Raise("AttributeError")
    ELSE LET last0 == PyOr(Get(a, "LastName", EmptyStr), EmptyStr)
             fore == PyOr(Get(a, "ForeName", EmptyStr), EmptyStr)
             last == IF ~(Truthy(last0) \/ Truthy(fore))
                     THEN Get(a, "CollectiveName", EmptyStr)
                     ELSE last0
             used == SelectSeq(<<fore, last>>, Truthy)
         IN  IF \E k \in 1..Len(used) : ~IsStr(used[k]) THEN Raise("TypeError")
             ELSE LET nm == Strip(JoinNonEmpty([k \in 1..Len(used) |-> used[k].s],
                                               <<" ">>))
                  IN  Ok(IF nm # <<>> THEN <<nm>> ELSE <<>>)

RECURSIVE AuthorNames(_)
AuthorNames(l) ==
    IF l = <<>> THEN Ok(<<>>)
    ELSE LET h == AuthorName(Head(l))
         IN  IF ~h.ok THEN h
             ELSE LET r == AuthorNames(Tail(l))
                  IN  IF ~r.ok THEN r ELSE Ok(h.v \o r.v)

_authors_to_str(art) ==
    LET al == PyOr(Get(art, "AuthorList", PyList(<<>>)), PyList(<<>>))
    IN  CASE al.t = "list" ->
                LET names == AuthorNames(al.l)
                IN  IF ~names.ok THEN names
                    ELSE Ok(JoinNonEmpty(names.v, <<",", " ">>))
          [] al.t = "int" -> Raise("TypeError")
          [] OTHER -> Raise("AttributeError")

Cols == <<"PMID", "Title", "Authors", "Year", "Journal", "Abstract">>

NA == <<"N", "/", "A">>

\* The body of the loop "for r in recs" of fetch_pubmed_full, one operator
\* per local in the order the code assigns them; a method call on a value of
\* the wrong type raises AttributeError.

\* rows.append({...}), after authors and abstract were computed
RowOf(pmid, title, authors, year, jtitle, abstract) ==
    IF ~authors.ok THEN authors
    ELSE IF ~abstract.ok THEN abstract
    ELSE Ok([PMID |-> pmid, Title |-> title, Authors |-> authors.v,
             Year |-> ToStr(year), Journal |-> jtitle, Abstract |-> abstract.v])

\* year = pubdate.get("Year") or (pubdate.get("MedlineDate") or "")
\*            .split(" ")[0] or "N/A";  pmid = str(med.get("PMID", "")).strip()
FromYear(med, art, jt, ti, y, md) ==
    IF ~Truthy(y) /\ ~IsStr(md) THEN Raise("AttributeError")
    ELSE RowOf(Strip(ToStr(Get(med, "PMID", EmptyStr))), Strip(ti.s),
               _authors_to_str(art),
               IF Truthy(y) THEN y ELSE PyOr(PyStr(FirstToken(md.s)), PyStr(NA)),
               Strip(jt.s), _flatten_abstract(art))

\* pubdate = (jour.get("JournalIssue", {}) or {}).get("PubDate", {})
FromPubDate(med, art, jt, ti, pubdate) ==
    IF ~IsDict(pubdate) THEN Raise("AttributeError")
    ELSE FromYear(med, art, jt, ti, Get(pubdate, "Year", PyNone),
                  PyOr(Get(pubdate, "MedlineDate", PyNone), EmptyStr))

FromIssue(med, art, jt, ti, ji) ==
    IF ~IsDict(ji) THEN Raise("AttributeError")
    ELSE FromPubDate(med, art, jt, ti, Get(ji, "PubDate", EmptyDict))

\* jtitle = (jour.get("Title") or "").strip()
\* title = (art.get("ArticleTitle") or "").strip()
FromTitles(med, art, jour, jt, ti) ==
    IF ~IsStr(jt) \/ ~IsStr(ti) THEN Raise("AttributeError")
    ELSE FromIssue(med, art, jt, ti,
                   PyOr(Get(jour, "JournalIssue", EmptyDict), EmptyDict))

\* jour = art.get("Journal", {}) or {}
FromJour(med, art, jour) ==
    IF ~IsDict(jour) THEN Raise("AttributeError")
    ELSE FromTitles(med, art, jour, PyOr(Get(jour, "Title", PyNone), EmptyStr),
                    PyOr(Get(art, "ArticleTitle", PyNone), EmptyStr))

\* art = med.get("Article", {}) or {}
FromArt(med, art) ==
    IF ~IsDict(art) THEN Raise("AttributeError")
    ELSE FromJour(med, art, PyOr(Get(art, "Journal", EmptyDict), EmptyDict))

\* med = r.get("MedlineCitation", {})
FromMed(med) ==
    IF ~IsDict(med) THEN Raise("AttributeError")
    ELSE FromArt(med, PyOr(Get(med, "Article", EmptyDict), EmptyDict))

\* the row appended for the raw record r, or the exception raised
NormalizeRecord(r) == FromMed(Get(r, "MedlineCitation", EmptyDict))

---------------------------------------------------------------------------
(* Data frames and CSV files *)

Range(f) == {f[k] : k \in DOMAIN f}

IndexOf(seq, x) == CHOOSE k \in DOMAIN seq : seq[k] = x

\* a file of the local disk or a blob of the container: absent, of zero
\* bytes, or a CSV text with a header line and one line per row
AbsentFile == [kind |-> "absent", header |-> <<>>, lines |-> <<>>]
ZeroByteFile == [kind |-> "empty", header |-> <<>>, lines |-> <<>>]
CsvFile(header, lines) == [kind |-> "csv", header |-> header, lines |-> lines]

\* pd.DataFrame(columns=cols) and pd.DataFrame(rows)
DataFrame(columns, rows) == [columns |-> columns, rows |-> rows]

\* df.to_csv(path, index=False): the cells of each row in column order (a
\* frame without columns gives a file with no header cell)
to_csv(df) ==
    CsvFile(df.columns,
            [k \in 1..Len(df.rows) |->
                [c \in 1..Len(df.columns) |-> df.rows[k][df.columns[c]]]])

\* pd.read_csv(path, dtype=str, keep_default_na=False): every cell is read
\* back as the text written, under the name of its header cell; a file with
\* no header cell has no columns to parse
read_csv(f) ==
    CASE f.kind = "absent" -> Raise("FileNotFoundError")
      [] f.kind = "empty"  -> Raise("EmptyDataError")
      [] f.kind = "csv" /\ f.header = <<>> -> Raise("EmptyDataError")
      [] f.kind = "csv" /\ f.header # <<>> ->
            Ok(DataFrame(f.header,
                  [k \in 1..Len(f.lines) |->
                      [name \in Range(f.header) |->
                          f.lines[k][IndexOf(f.header, name)]]]))

\* df[c] = "" for every c of cols that is no column of df
AddMissingColumns(df, cols) ==
    LET missing == SelectSeq(cols, LAMBDA c : c \notin Range(df.columns))
    IN  DataFrame(df.columns \o missing,
                  [k \in 1..Len(df.rows) |->
                      [c \in Range(df.columns) \cup Range(missing) |->
                          IF c \in Range(df.columns) THEN df.rows[k][c] ELSE <<>>]])

\* df[cols]
SelectColumns(df, cols) ==
    DataFrame(cols, [k \in 1..Len(df.rows) |->
                        [c \in Range(cols) |-> df.rows[k][c]]])

\* pd.concat([a, b], ignore_index=True), a and b of the same columns
concat(a, b) == DataFrame(a.columns, a.rows \o b.rows)

\* df[mask]: the rows at the positions of keep, in order
RECURSIVE RowsAt(_, _, _)
RowsAt(rows, keep, k) ==
    IF k > Len(rows) THEN <<>>
    ELSE (IF k \in keep THEN <<rows[k]>> ELSE <<>>) \o RowsAt(rows, keep, k + 1)

KeyOf(row, subset) == [c \in subset |-> row[c]]

\* the positions drop_duplicates keeps: of the rows equal on subset, the
\* first one (keep="first", the default) or the last one (keep="last")
KeptPositions(rows, subset, keep) ==
    {k \in 1..Len(rows) :
        IF keep = "first"
        THEN \A j \in 1..(k - 1) : KeyOf(rows[j], subset) # KeyOf(rows[k], subset)
        ELSE \A j \in (k + 1)..Len(rows) :
                KeyOf(rows[j], subset) # KeyOf(rows[k], subset)}

\* df.drop_duplicates(subset=subset, keep=keep): an empty frame is returned
\* as it is, before subset is looked at
drop_duplicates(df, subset, keep) ==
    IF df.rows = <<>> \/ df.columns = <<>> THEN Ok(df)
    ELSE IF ~(subset \subseteq Range(df.columns)) THEN Raise("KeyError")
    ELSE Ok(DataFrame(df.columns,
                      RowsAt(df.rows, KeptPositions(df.rows, subset, keep), 1)))

---------------------------------------------------------------------------
(* merge_csvs *)

\* the nested read(p) of merge_csvs: p is a path or "None", f the file at p
read(p, f) ==
    IF p # "None" /\ f.kind # "absent" THEN read_csv(f)
    ELSE Ok(DataFrame(Cols, <<>>))

\* combined[has_pmid] and combined[~has_pmid]
HasPmid(row) == Len(row.PMID) > 0

WithPmid(df) == DataFrame(df.columns, SelectSeq(df.rows, HasPmid))
WithoutPmid(df) ==
    DataFrame(df.columns, SelectSeq(df.rows, LAMBDA r : ~HasPmid(r)))

\* (variant: the calls left at pandas' default, the first occurrence wins)
MergeKeepFirst == "first"

\* keep= of the two drop_duplicates calls of merge_csvs
MergeKeep == "last"

\* (variant: the fallback key without the year)
TitleOnlyKey == {"Title"}

\* subset= of the drop_duplicates call on the rows without a PMID
FallbackKey == {"Title", "Year"}

\* merge_csvs(old_csv, new_csv, out_csv): the file written to out_csv, or
\* the exception raised.  p is old_csv (a path or "None"), oldf and newf
\* are the files at old_csv and at new_csv.
merge_csvs(p, oldf, newf) ==
    LET o == read(p, oldf)
    IN  IF ~o.ok THEN o ELSE
    LET n == read("new_csv", newf)
    IN  IF ~n.ok THEN n ELSE
    LET old_df == AddMissingColumns(o.v, Cols)
        new_df == AddMissingColumns(n.v, Cols)
        combined == concat(SelectColumns(old_df, Cols), SelectColumns(new_df, Cols))
        d1 == drop_duplicates(WithPmid(combined), {"PMID"}, MergeKeep)
        d2 == drop_duplicates(WithoutPmid(combined), FallbackKey, MergeKeep)
    IN  Ok(to_csv(concat(d1.v, d2.v)))

---------------------------------------------------------------------------
(* fetch_pubmed_full *)

\* the batch size of the loop over ids
BATCH == 200

\* (variant: keep="last" passed, as merge_csvs does)
FetchKeepLast == "last"

\* keep= of the drop_duplicates call of fetch_pubmed_full (pandas' default)
FetchKeep == "first"

\* the loop "for r in recs": res[k] is what the iteration for recs[k] gives;
\* the rows appended, or the exception of the first iteration that raises
CollectRows(res) ==
    IF \E k \in 1..Len(res) : ~res[k].ok
    THEN res[CHOOSE k \in 1..Len(res) :
                ~res[k].ok /\ \A j \in 1..(k - 1) : res[j].ok]
    ELSE Ok([k \in 1..Len(res) |-> res[k].v])

NormalizeAll(rs) == CollectRows([k \in 1..Len(rs) |-> NormalizeRecord(rs[k])])

\* the file written for an empty IdList
HeaderOnly == to_csv(DataFrame(Cols, <<>>))

\* df.to_csv(out_path, index=False) of the deduplicated frame
WriteFrame(dd) == IF ~dd.ok THEN dd ELSE Ok(to_csv(dd.v))

\* df = pd.DataFrame(rows).drop_duplicates(subset=["PMID"]): a frame made
\* of no row has no column, and neither has the file written for it
DedupRows(rows) ==
    IF ~rows.ok THEN rows
    ELSE WriteFrame(drop_duplicates(
             DataFrame(IF rows.v = <<>> THEN <<>> ELSE Cols, rows.v),
             {"PMID"}, FetchKeep))

\* the part of fetch_pubmed_full after the batch loop: the file written to
\* out_path for the raw records rs, or the exception raised
WriteRows(rs) == DedupRows(NormalizeAll(rs))

\* fetch_pubmed_full as one call: api_ok tells whether esearch and every
\* efetch answered, n is len(ids), rs the records the batches returned
fetch_pubmed_full(api_ok, n, rs) ==
    IF ~api_ok THEN Raise("HTTPError")
    ELSE IF n = 0 THEN Ok(HeaderOnly)
    ELSE WriteRows(rs)

\* (variant: the pause taken only when another batch follows)
SleepsBetweenBatches(start, n) == start + BATCH < n

\* time.sleep(0.34) is the last statement of the loop body: it runs after
\* the batch that starts at start, whatever n = len(ids) is
SleepsAfterBatch(start, n) == TRUE

---------------------------------------------------------------------------
(* download_existing_blob and the orchestrator *)

\* (variant: a bare "except Exception")
CatchesEverything(e) == TRUE

\* the except clause of download_existing_blob
CaughtByDownload(e) == e = "ResourceNotFoundError"

\* (variant: every step wrapped in try/except, the run going on)
ContinueAfterStep(step, ok) ==
    CASE step = "fetch"    -> "fetched"
      [] step = "download" -> "downloaded"
      [] step = "merge"    -> "merged"
      [] step = "upload"   -> "done"

\* run_pubmed_extraction_and_upload calls the four steps in sequence and
\* catches nothing: the position after a step that returned (ok) or raised
AfterStep(step, ok) ==
    IF ~ok THEN "failed"
    ELSE CASE step = "fetch"    -> "fetched"
           [] step = "download" -> "downloaded"
           [] step = "merge"    -> "merged"
           [] step = "upload"   -> "done"

---------------------------------------------------------------------------
(* Inputs *)

MaxRows == 2
MaxRecs == 2
MaxRunRecs == 2
MaxBatches == 2

SeqsUpTo(S, n) == UNION {[1..k -> S] : k \in 0..n}

A_ == <<"A">>
B_ == <<"B">>

\* a well-formed PubmedArticle as Entrez.read returns it
Article(pmid, title, year, fore) ==
    PyDict("MedlineCitation" :> PyDict(
        "PMID" :> PyStr(pmid) @@
        "Article" :> PyDict(
            "ArticleTitle" :> PyStr(title) @@
            "Journal" :> PyDict(
                "Title" :> PyStr(<<"J">>) @@
                "JournalIssue" :> PyDict(
                    "PubDate" :> PyDict("Year" :> PyStr(year)))) @@
            "AuthorList" :> PyList(<<PyDict("ForeName" :> PyStr(fore) @@
                                           "LastName" :> PyStr(<<"L">>))>>))))

Y19 == <<"2", "0", "1", "9">>
Y20 == <<"2", "0", "2", "0">>

\* records the batches return: two versions of PMID 1 (the second with a
\* padded PMID), PMID 2, three records without a PMID, and one whose
\* MedlineCitation is null
SampleRecords ==
    { Article(<<"1">>, <<"X">>, Y20, A_),
      Article(<<" ", "1">>, <<"X", "r">>, Y20, B_),
      Article(<<"2">>, <<"X">>, Y20, A_),
      Article(<<>>, <<"S">>, Y19, A_),
      Article(<<>>, <<"S">>, Y19, B_),
      Article(<<>>, <<"T">>, Y20, A_),
      PyDict("MedlineCitation" :> PyNone) }

Row(pmid, title, year, authors) ==
    [PMID |-> pmid, Title |-> title, Authors |-> authors, Year |-> year,
     Journal |-> <<"J">>, Abstract |-> <<>>]

\* records the batches of the runs of the orchestrator return
RunRecords ==
    { Article(<<"1">>, <<"X">>, Y20, A_),
      Article(<<" ", "1">>, <<"X", "r">>, Y20, B_),
      Article(<<"2">>, <<"X">>, Y20, A_),
      Article(<<>>, <<"S">>, Y19, A_),
      Article(<<>>, <<"T">>, Y20, A_),
      PyDict("MedlineCitation" :> PyNone) }

\* rows of the files handed to merge_csvs: two versions of PMID 1, a row
\* of PMID 2 and three rows without a PMID, one of the title and year of
\* PMID 2 and two that differ in the authors only
SampleRows ==
    { Row(<<"1">>, <<"X">>, Y20, A_),
      Row(<<"1">>, <<"X", "r">>, Y20, B_),
      Row(<<"2">>, <<"S">>, Y19, A_),
      Row(<<>>, <<"S">>, Y19, A_),
      Row(<<>>, <<"S">>, Y19, B_),
      Row(<<>>, <<"S">>, Y20, A_) }

\* an older cumulative file: columns in another order and no Authors column
OldHeader == <<"Title", "PMID", "Year", "Journal", "Abstract">>

OldFiles ==
    {to_csv(DataFrame(h, rows)) :
        h \in {Cols, OldHeader}, rows \in SeqsUpTo(SampleRows, MaxRows)}

NewFiles == {to_csv(DataFrame(Cols, rows)) : rows \in SeqsUpTo(SampleRows, MaxRows)}

\* len(ids): around each multiple of the batch size
IdCounts ==
    {n \in 0..(MaxBatches * BATCH + 1) : n % BATCH \in {0, 1, BATCH - 1}}

\* raw records in which each optional substructure is missing (no key),
\* null, of an unrecognized shape, or of the shape the API documents
Missing == [t |-> "missing"]

MkDict(f) == PyDict([k \in {x \in DOMAIN f : f[x] # Missing} |-> f[k]])

PubDates ==
    {Missing, PyNone, PyStr(<<"x">>)} \cup
    {MkDict([Year |-> y, MedlineDate |-> m]) :
        y \in {Missing, PyStr(Y20)},
        m \in {Missing, PyNone, PyStr(Y19 \o <<" ", "J">>)}}

JournalIssues ==
    {Missing, PyNone, PyInt(7)} \cup {MkDict([PubDate |-> p]) : p \in PubDates}

Journals ==
    {Missing, PyNone, PyInt(7)} \cup
    {MkDict([Title |-> t, JournalIssue |-> ji]) :
        t \in {Missing, PyStr(<<" ", "J">>)}, ji \in JournalIssues}

AuthorLists ==
    {Missing, PyNone, PyStr(<<"x">>), PyList(<<>>),
     PyList(<<PyDict("ForeName" :> PyStr(A_) @@ "LastName" :> PyStr(<<"L">>))>>),
     PyList(<<PyDict("CollectiveName" :> PyStr(<<"G">>)), EmptyDict>>)}

AbstractTexts ==
    {Missing, PyNone, PyInt(7), PyStr(<<" ", "a">>),
     PyDict("#text" :> PyStr(<<"a">>)),
     PyList(<<PyStr(<<"a">>), PyNone,
              PyDict("Label" :> PyStr(<<"M">>) @@ "#text" :> PyStr(<<"b">>))>>)}

Abstracts ==
    {Missing, PyNone, PyStr(<<"x">>), PyList(<<PyStr(<<"x">>)>>)} \cup
    {MkDict([AbstractText |-> a]) : a \in AbstractTexts}

Articles ==
    {Missing, PyNone, PyInt(7)} \cup
    {MkDict([ArticleTitle |-> t, Journal |-> j, AuthorList |-> al, Abstract |-> ab]) :
        t \in {Missing, PyStr(<<"X", " ">>)}, j \in Journals,
        al \in AuthorLists, ab \in Abstracts}

MedlineCitations ==
    {Missing, PyNone, PyInt(7)} \cup
    {MkDict([PMID |-> p, Article |-> a]) :
        p \in {Missing, PyNone, PyStr(<<" ", "1">>)}, a \in Articles}

RawRecords == {MkDict([MedlineCitation |-> m]) : m \in MedlineCitations}

---------------------------------------------------------------------------
(* State machine *)

\* the state before the first run: no blob, no working file
Init ==
    /\ pc = "start"
    /\ raw = EmptyDict
    /\ norm = Ok(PyNone)
    /\ nIds = 0
    /\ i = 0
    /\ recs = <<>>
    /\ calls = <<>>
    /\ new_file = AbsentFile
    /\ old_file = AbsentFile
    /\ merged_file = AbsentFile
    /\ existing = "None"
    /\ blob = AbsentFile
    /\ preBlob = AbsentFile
    /\ steps = <<>>
    /\ dl_exc = ""
    /\ err = ""

\* what one call of fetch_pubmed_full can end in: an API error, the
\* header-only file of an empty IdList, or what the records fetched give
FetchResults ==
    {fetch_pubmed_full(FALSE, 0, <<>>), fetch_pubmed_full(TRUE, 0, <<>>)} \cup
    {fetch_pubmed_full(TRUE, BATCH, rs) : rs \in SeqsUpTo(RunRecords, MaxRunRecs)}

\* step 1 of a run: fetch_pubmed_full(query, 1000, new_csv)
Fetch ==
    /\ pc = "start"
    /\ \E res \in FetchResults :
          /\ new_file' = IF res.ok THEN res.v ELSE new_file
          /\ pc' = AfterStep("fetch", res.ok)
          /\ err' = IF res.ok THEN err ELSE "fetch"
    /\ steps' = Append(steps, "fetch")
    /\ UNCHANGED <<raw, norm, nIds, i, recs, calls, old_file, merged_file,
                   existing, blob, preBlob, dl_exc>>

\* step 2: existing = download_existing_blob(conn_str, container, blob_name,
\* old_csv).  open(local_path, "wb") truncates old_csv before download_blob()
\* is called, so the file is empty when the call raises.
Download ==
    /\ pc = "fetched"
    /\ \E e \in {"", "ResourceNotFoundError", "HttpResponseError"} :
          /\ e = "" => blob.kind # "absent"
          /\ e = "ResourceNotFoundError" => blob.kind = "absent"
          /\ dl_exc' = e
          /\ old_file' = IF e = "" THEN blob ELSE ZeroByteFile
          /\ existing' = IF e = "" THEN "old_csv"
                         ELSE IF CaughtByDownload(e) THEN "None" ELSE existing
          /\ pc' = AfterStep("download", e = "" \/ CaughtByDownload(e))
          /\ err' = IF e = "" \/ CaughtByDownload(e) THEN err ELSE "download"
    /\ steps' = Append(steps, "download")
    /\ UNCHANGED <<raw, norm, nIds, i, recs, calls, new_file, merged_file,
                   blob, preBlob>>

\* what the call of step 3 ends in
MergeResult == merge_csvs(existing, old_file, new_file)

\* step 3: merge_csvs(existing, new_csv, merged_csv)
Merge ==
    /\ pc = "downloaded"
    /\ \E res \in {MergeResult} :
          /\ merged_file' = IF res.ok THEN res.v ELSE merged_file
          /\ pc' = AfterStep("merge", res.ok)
          /\ err' = IF res.ok THEN err ELSE "merge"
    /\ steps' = Append(steps, "merge")
    /\ UNCHANGED <<raw, norm, nIds, i, recs, calls, new_file, old_file,
                   existing, blob, preBlob, dl_exc>>

\* (variant: new_csv passed to upload_to_blob)
UploadsFreshFile == new_file

\* the local file step 4 uploads: merged_csv
UploadedFile == merged_file

\* step 4: upload_to_blob(merged_csv, container, blob_name, conn_str):
\* upload_blob(overwrite=True) replaces the blob by the file or raises;
\* open() raises when the file does not exist
Upload ==
    /\ pc = "merged"
    /\ \E net_ok \in BOOLEAN :
          /\ blob' = IF net_ok /\ UploadedFile.kind # "absent"
                     THEN UploadedFile ELSE blob
          /\ pc' = AfterStep("upload", net_ok /\ UploadedFile.kind # "absent")
          /\ err' = IF net_ok /\ UploadedFile.kind # "absent" THEN err ELSE "upload"
    /\ steps' = Append(steps, "upload")
    /\ UNCHANGED <<raw, norm, nIds, i, recs, calls, new_file, old_file,
                   merged_file, existing, preBlob, dl_exc>>

\* the scheduler starts the next run (the monthly trigger, or its retry of
\* a failed run); the working files stay on the disk
Trigger ==
    /\ pc \in {"done", "failed"}
    /\ pc' = "start"
    /\ preBlob' = blob
    /\ steps' = <<>>
    /\ dl_exc' = ""
    /\ err' = ""
    /\ UNCHANGED <<raw, norm, nIds, i, recs, calls, new_file, old_file,
                   merged_file, existing, blob>>

Next == Fetch \/ Download \/ Merge \/ Upload \/ Trigger

Spec == Init /\ [][Next]_vars

---------------------------------------------------------------------------
(* merge_csvs on its own: every pair of input files *)

InitMerge ==
    /\ pc = "downloaded"
    /\ raw = EmptyDict
    /\ norm = Ok(PyNone)
    /\ nIds = 0
    /\ i = 0
    /\ recs = <<>>
    /\ calls = <<>>
    /\ new_file \in NewFiles
    /\ \/ existing = "None" /\ old_file = ZeroByteFile
       \/ existing = "old_csv" /\ old_file \in OldFiles \cup {AbsentFile, ZeroByteFile}
    /\ merged_file = AbsentFile
    /\ blob = AbsentFile
    /\ preBlob = AbsentFile
    /\ steps = <<"fetch", "download">>
    /\ dl_exc = ""
    /\ err = ""

NextMerge == Merge

SpecMerge == InitMerge /\ [][NextMerge]_vars

---------------------------------------------------------------------------
(* fetch_pubmed_full statement by statement *)

InitFetch ==
    /\ pc = "f_start"
    /\ raw = EmptyDict
    /\ norm = Ok(PyNone)
    /\ nIds = 0
    /\ i = 0
    /\ recs = <<>>
    /\ calls = <<>>
    /\ new_file = AbsentFile
    /\ old_file = AbsentFile
    /\ merged_file = AbsentFile
    /\ existing = "None"
    /\ blob = AbsentFile
    /\ preBlob = AbsentFile
    /\ steps = <<"fetch">>
    /\ dl_exc = ""
    /\ err = ""

\* Entrez.esearch / Entrez.read, and the branch "if not ids"
Esearch ==
    /\ pc = "f_start"
    /\ calls' = Append(calls, "esearch")
    /\ \E api_ok \in BOOLEAN, n \in IdCounts :
          /\ nIds' = IF api_ok THEN n ELSE nIds
          /\ new_file' = IF api_ok /\ n = 0 THEN HeaderOnly ELSE new_file
          /\ pc' = IF ~api_ok THEN "f_failed"
                   ELSE IF n = 0 THEN "f_done" ELSE "f_batch"
          /\ err' = IF api_ok THEN err ELSE "fetch"
    /\ UNCHANGED <<raw, norm, i, recs, old_file, merged_file, existing, blob,
                   preBlob, steps, dl_exc>>

\* the position after the loop body for the batch that starts at i
AfterBatch == IF i + BATCH < nIds THEN "f_batch" ELSE "f_write"

Min(a, b) == IF a < b THEN a ELSE b

\* one iteration of "for i in range(0, len(ids), 200)" up to recs.extend:
\* efetch answers with at most len(chunk) records, or raises
Efetch ==
    /\ pc = "f_batch"
    /\ calls' = Append(calls, "efetch")
    /\ \E api_ok \in BOOLEAN,
          batch \in SeqsUpTo(SampleRecords, Min(MaxRecs - Len(recs), Min(BATCH, nIds - i))) :
          /\ recs' = IF api_ok THEN recs \o batch ELSE recs
          /\ pc' = IF ~api_ok THEN "f_failed"
                   ELSE IF SleepsAfterBatch(i, nIds) THEN "f_sleep" ELSE AfterBatch
          /\ i' = IF api_ok /\ ~SleepsAfterBatch(i, nIds) THEN i + BATCH ELSE i
          /\ err' = IF api_ok THEN err ELSE "fetch"
    /\ UNCHANGED <<raw, norm, nIds, new_file, old_file, merged_file, existing,
                   blob, preBlob, steps, dl_exc>>

\* time.sleep(0.34), the end of the loop body
Sleep ==
    /\ pc = "f_sleep"
    /\ calls' = Append(calls, "sleep")
    /\ i' = i + BATCH
    /\ pc' = AfterBatch
    /\ UNCHANGED <<raw, norm, nIds, recs, new_file, old_file, merged_file,
                   existing, blob, preBlob, steps, dl_exc, err>>

\* the row loop, drop_duplicates and to_csv
WriteFresh ==
    /\ pc = "f_write"
    /\ new_file' = IF WriteRows(recs).ok THEN WriteRows(recs).v ELSE new_file
    /\ pc' = IF WriteRows(recs).ok THEN "f_done" ELSE "f_failed"
    /\ err' = IF WriteRows(recs).ok THEN err ELSE "fetch"
    /\ UNCHANGED <<raw, norm, nIds, i, recs, calls, old_file, merged_file,
                   existing, blob, preBlob, steps, dl_exc>>

NextFetch == Esearch \/ Efetch \/ Sleep \/ WriteFresh

SpecFetch == InitFetch /\ [][NextFetch]_vars

---------------------------------------------------------------------------
(* the row loop body on its own: every raw record *)

InitNorm ==
    /\ pc = "n_start"
    /\ raw \in RawRecords
    /\ norm = Ok(PyNone)
    /\ nIds = 0
    /\ i = 0
    /\ recs = <<>>
    /\ calls = <<>>
    /\ new_file = AbsentFile
    /\ old_file = AbsentFile
    /\ merged_file = AbsentFile
    /\ existing = "None"
    /\ blob = AbsentFile
    /\ preBlob = AbsentFile
    /\ steps = <<"fetch">>
    /\ dl_exc = ""
    /\ err = ""

Normalize ==
    /\ pc = "n_start"
    /\ norm' = NormalizeRecord(raw)
    /\ pc' = "n_done"
    /\ UNCHANGED <<raw, nIds, i, recs, calls, new_file, old_file, merged_file,
                   existing, blob, preBlob, steps, dl_exc, err>>

NextNorm == Normalize

SpecNorm == InitNorm /\ [][NextNorm]_vars

---------------------------------------------------------------------------
(* Properties *)

\* the dataset a file holds: its rows under the six fixed columns, a column
\* the file lacks read as the empty text; no row for a file that is absent
Dataset(f) ==
    IF f.kind # "csv" THEN <<>>
    ELSE [k \in 1..Len(f.lines) |->
            [c \in Range(Cols) |->
                IF c \in Range(f.header)
                THEN f.lines[k][IndexOf(f.header, c)] ELSE <<>>]]

Previous == IF existing = "None" THEN <<>> ELSE Dataset(old_file)
Fresh == Dataset(new_file)
Concatenation == Previous \o Fresh
Merged == Dataset(merged_file)
PreRows == Dataset(preBlob)
BlobRows == Dataset(blob)

Largest(S) == CHOOSE x \in S : \A y \in S : y <= x
Smallest(S) == CHOOSE x \in S : \A y \in S : x <= y

Ids(rows) == {rows[k].PMID : k \in DOMAIN rows} \ {<<>>}
PositionsOfId(rows, id) == {k \in DOMAIN rows : rows[k].PMID = id}
PositionsOfPair(rows, t, y) ==
    {k \in DOMAIN rows : rows[k].PMID = <<>> /\ rows[k].Title = t /\ rows[k].Year = y}
Pairs(rows) ==
    {<<rows[k].Title, rows[k].Year>> : k \in PositionsOfId(rows, <<>>)}

\* two rows that the merge policy takes for the same record
SameKey(a, b) ==
    IF a.PMID # <<>> \/ b.PMID # <<>> THEN a.PMID = b.PMID
    ELSE a.Title = b.Title /\ a.Year = b.Year

\* rows of one key are the same row
ConflictFree(rows) ==
    \A k, j \in DOMAIN rows : SameKey(rows[k], rows[j]) => rows[k] = rows[j]

\* C1: after merge_csvs, every non-empty id of previous-then-fresh has
\* exactly one merged row, the last occurrence of the id in that
\* concatenation; an id that occurs in fresh has the last fresh row.
C1_LastOccurrenceWins ==
    pc = "merged" =>
        LET all == Concatenation
            new == Fresh
            out == Merged
        IN  \A id \in Ids(all) :
                /\ Cardinality(PositionsOfId(out, id)) = 1
                /\ \A m \in PositionsOfId(out, id) :
                      /\ out[m] = all[Largest(PositionsOfId(all, id))]
                      /\ PositionsOfId(new, id) # {} =>
                            out[m] = new[Largest(PositionsOfId(new, id))]

\* C1 witness: an id with one version in previous and another in fresh, of
\* which the merged file holds the fresh one only
C1_Witness ==
    /\ pc = "merged"
    /\ \E k \in DOMAIN Previous, j \in DOMAIN Fresh :
          /\ Previous[k].PMID # <<>>
          /\ Previous[k].PMID = Fresh[j].PMID
          /\ Previous[k] # Fresh[j]
          /\ Fresh[j] \in Range(Merged)
          /\ Previous[k] \notin Range(Merged)

\* C5: after merge_csvs, every (title, year) of the rows without an id has
\* exactly one merged row without an id, its last occurrence; the merged
\* file has one row per id plus one per (title, year) of the rows without
\* an id, so no row of one group removed a row of the other; and the rows
\* with an id come first.
C5_EmptyIdRows ==
    pc = "merged" =>
        LET all == Concatenation
            out == Merged
        IN  /\ \A p \in Pairs(all) :
                  /\ Cardinality(PositionsOfPair(out, p[1], p[2])) = 1
                  /\ \A m \in PositionsOfPair(out, p[1], p[2]) :
                        out[m] = all[Largest(PositionsOfPair(all, p[1], p[2]))]
            /\ Len(out) = Cardinality(Ids(all)) + Cardinality(Pairs(all))
            /\ \A m, n \in DOMAIN out :
                  m < n /\ out[m].PMID = <<>> => out[n].PMID = <<>>

\* C5 witness: previous and fresh each hold a row without an id of one
\* (title, year), with different authors, beside a row with an id of that
\* title and year; the merged file holds the fresh one and the row with id
C5_Witness ==
    /\ pc = "merged"
    /\ \E k \in DOMAIN Previous, j \in DOMAIN Fresh, n \in DOMAIN Concatenation :
          /\ Previous[k].PMID = <<>> /\ Fresh[j].PMID = <<>>
          /\ SameKey(Previous[k], Fresh[j])
          /\ Previous[k] # Fresh[j]
          /\ Concatenation[n].PMID # <<>>
          /\ Concatenation[n].Title = Fresh[j].Title
          /\ Concatenation[n].Year = Fresh[j].Year
          /\ Fresh[j] \in Range(Merged)
          /\ Concatenation[n] \in Range(Merged)
          /\ Previous[k] \notin Range(Merged)

\* merge_csvs was called with the same dataset as previous and as fresh
MergedWithItself ==
    pc = "merged" /\ existing = "old_csv" /\ old_file = new_file

\* C4 as claimed: merge(A, A) has the rows of A, for every dataset A.
C4_Original == MergedWithItself => Range(Merged) = Range(Fresh)

\* C4 amended: merge(A, A) holds rows of A only, and has all the rows of A
\* exactly when rows of A that share a key (an id, or title and year for
\* rows without id) are the same row.
C4_IdempotentOnDeduplicated ==
    MergedWithItself =>
        /\ Range(Merged) \subseteq Range(Fresh)
        /\ ConflictFree(Fresh) <=> Range(Merged) = Range(Fresh)

\* C4 witness: a dataset of two rows of different keys merged with itself
C4_Witness ==
    /\ MergedWithItself
    /\ ConflictFree(Fresh)
    /\ Cardinality(Range(Fresh)) = 2
    /\ Range(Merged) = Range(Fresh)

\* C2: the cumulative blob never holds two rows of one non-empty id and
\* never loses an id it held when the run started; after a successful run
\* its ids are those of the pre-run blob and of the fresh file, each with
\* the fresh row when the fresh file has the id and with the pre-run row
\* otherwise.
C2_CumulativeDataset ==
    /\ \A id \in Ids(BlobRows) : Cardinality(PositionsOfId(BlobRows, id)) = 1
    /\ Ids(PreRows) \subseteq Ids(BlobRows)
    /\ pc = "done" =>
          /\ Ids(BlobRows) = Ids(PreRows) \cup Ids(Fresh)
          /\ \A m \in DOMAIN BlobRows :
                BlobRows[m].PMID # <<>> =>
                    IF BlobRows[m].PMID \in Ids(Fresh)
                    THEN BlobRows[m] =
                            Fresh[Largest(PositionsOfId(Fresh, BlobRows[m].PMID))]
                    ELSE BlobRows[m] \in Range(PreRows)

\* C2 witness: a successful run whose fetch brought a new version of one id
\* of the pre-run blob and nothing for another
C2_Witness ==
    /\ pc = "done"
    /\ \E k \in DOMAIN PreRows, j \in DOMAIN Fresh :
          /\ PreRows[k].PMID # <<>>
          /\ PreRows[k].PMID = Fresh[j].PMID
          /\ PreRows[k] # Fresh[j]
          /\ Fresh[j] \in Range(BlobRows)
    /\ \E k \in DOMAIN PreRows :
          /\ PreRows[k].PMID \in Ids(PreRows) \ Ids(Fresh)
          /\ PreRows[k] \in Range(BlobRows)

RunSteps == <<"fetch", "download", "merge", "upload">>

\* C3: a run that failed left the blob as it was when the run started, at
\* the step that raised, which is the last step entered; the blob differs
\* from its pre-run content only after the four steps were entered in order
\* and all succeeded, and then it is the merged file.
C3_AllOrNothing ==
    /\ pc = "failed" <=> err # ""
    /\ err # "" =>
          /\ blob = preBlob
          /\ steps # <<>> /\ steps[Len(steps)] = err
    /\ Len(steps) <= Len(RunSteps) /\ steps = SubSeq(RunSteps, 1, Len(steps))
    /\ blob # preBlob => pc = "done" /\ steps = RunSteps /\ blob = merged_file

\* C3 witness: the upload failed when the merged file differed from the
\* blob, which kept its pre-run rows
C3_Witness ==
    /\ pc = "failed"
    /\ err = "upload"
    /\ blob.kind = "csv"
    /\ Range(Merged) # Range(BlobRows)

\* C6: when the blob does not exist the download returns None, the run goes
\* on to merge, and a run that completes uploads the fresh dataset
\* deduplicated: one row per key, the last fresh row of that key.  Any other
\* error of the download ends the run at the download step with the blob
\* untouched.
C6_AbsentBlob ==
    /\ dl_exc = "ResourceNotFoundError" =>
          /\ existing = "None"
          /\ err # "download"
          /\ pc \in {"downloaded", "merged", "done", "failed"}
    /\ dl_exc = "ResourceNotFoundError" /\ pc = "done" =>
          /\ blob.header = Cols
          /\ \A k \in DOMAIN Fresh :
                \E m \in DOMAIN BlobRows :
                    /\ SameKey(BlobRows[m], Fresh[k])
                    /\ BlobRows[m] =
                          Fresh[Largest({j \in DOMAIN Fresh : SameKey(Fresh[j], Fresh[k])})]
          /\ \A m, n \in DOMAIN BlobRows :
                SameKey(BlobRows[m], BlobRows[n]) => m = n
          /\ Range(BlobRows) \subseteq Range(Fresh)
    /\ dl_exc \notin {"", "ResourceNotFoundError"} =>
          /\ pc = "failed" /\ err = "download"
          /\ steps = <<"fetch", "download">>
          /\ blob = preBlob

\* C6 witness: a first run completed with two fetched rows as the blob
C6_Witness ==
    /\ pc = "done"
    /\ dl_exc = "ResourceNotFoundError"
    /\ preBlob.kind = "absent"
    /\ Len(BlobRows) = 2

\* the normalized rows of the records fetched, once the file is written
FetchDone == pc = "f_done" /\ nIds > 0
Normalized == NormalizeAll(recs).v

\* C7 as claimed: of the normalized rows of one non-empty id, the fresh file
\* holds exactly one, the last.
C7_Original ==
    FetchDone =>
        \A id \in Ids(Normalized) :
            /\ Cardinality(PositionsOfId(Fresh, id)) = 1
            /\ \A m \in PositionsOfId(Fresh, id) :
                  Fresh[m] = Normalized[Largest(PositionsOfId(Normalized, id))]

\* C7 amended: of the normalized rows of one non-empty id, the fresh file
\* holds exactly one, the first in fetch order.
C7_FirstOccurrenceWins ==
    FetchDone =>
        \A id \in Ids(Normalized) :
            /\ Cardinality(PositionsOfId(Fresh, id)) = 1
            /\ \A m \in PositionsOfId(Fresh, id) :
                  Fresh[m] = Normalized[Smallest(PositionsOfId(Normalized, id))]

\* C7 witness: two different normalized rows of one id, the earlier one in
\* the fresh file
C7_Witness ==
    /\ FetchDone
    /\ \E k, j \in DOMAIN Normalized :
          /\ k < j
          /\ Normalized[k].PMID # <<>>
          /\ Normalized[k].PMID = Normalized[j].PMID
          /\ Normalized[k] # Normalized[j]
          /\ Normalized[k] \in Range(Fresh)
          /\ Normalized[j] \notin Range(Fresh)

\* C10: every normalized row without an id is a row of the fresh file.
C10_EmptyIdRowsKept ==
    FetchDone =>
        \A k \in DOMAIN Normalized :
            Normalized[k].PMID = <<>> => Normalized[k] \in Range(Fresh)

Count(seq, x) == Cardinality({k \in DOMAIN seq : seq[k] = x})

\* ceil(n / 200)
Batches(n) == (n + BATCH - 1) \div BATCH

\* the batch loop has ended
LoopDone == nIds > 0 /\ pc \in {"f_write", "f_done"}

\* C8 as claimed: ceil(N/200) - 1 pauses, each between two batch fetches,
\* none after the last batch.
C8_Original ==
    LoopDone =>
        /\ Count(calls, "sleep") = Batches(nIds) - 1
        /\ \A k \in DOMAIN calls :
              calls[k] = "sleep" =>
                  /\ k > 1 /\ calls[k - 1] = "efetch"
                  /\ k < Len(calls) /\ calls[k + 1] = "efetch"

\* C8 amended: the calls are esearch, then efetch and pause in turn; once the
\* loop has ended there were ceil(N/200) batch fetches and ceil(N/200)
\* pauses, one after each batch fetch, the last one after the last batch,
\* and none before the first batch.
C8_PauseAfterEveryBatch ==
    /\ \A k \in DOMAIN calls :
          calls[k] = IF k = 1 THEN "esearch"
                     ELSE IF k % 2 = 0 THEN "efetch" ELSE "sleep"
    /\ LoopDone =>
          /\ Count(calls, "efetch") = Batches(nIds)
          /\ Count(calls, "sleep") = Batches(nIds)
          /\ calls[Len(calls)] = "sleep"

\* C8 witness: 401 ids fetched in three batches, three pauses
C8_Witness ==
    /\ pc = "f_done"
    /\ nIds = 2 * BATCH + 1
    /\ Count(calls, "efetch") = 3
    /\ Count(calls, "sleep") = 3

\* C9: the row loop body raises for no raw record and gives a row of the
\* six fields.
C9_NeverFatal ==
    pc = "n_done" => norm.ok /\ DOMAIN norm.v = Range(Cols)

===========================================================================
